---- MODULE Spec2Model ----
(***************************************************************************)
(* downlogger: the buffered write-back Logger of src/src/index.ts.         *)
(*                                                                         *)
(* A file is a sequence of tokens: a token is one line of text or the      *)
(* newline character NL, so that join('\n') and the trailing `\n` of every *)
(* write are modelled by what they produce.  humanDate() is opaque and is  *)
(* left out of a line; the message of the k-th buffered call is "m" k.     *)
(***************************************************************************)
EXTENDS Integers, Sequences, FiniteSets

VARIABLES
    consoleOutput,      \* this.consoleOutput
    synchronous,        \* this.synchronous
    logBufferOverflow,  \* this.logBufferOverflow
    overflowArg,        \* history: the constructor's argument logBufferOverflow
    files,              \* this.files
    logBuffer,          \* this.logBuffer
    disk,               \* content of every path of the file system
    inflight,           \* fs.appendFile calls issued and not yet completed
    issued,             \* number of fs.appendFile calls issued so far
    console,            \* what this.__console received
    pc,                 \* "RUNNING" or "TERMINATED" (the host process)
    exitCode,           \* exit status of the process; -1 while it runs
    raised,             \* the last operation ended by throwing
    unwritable,         \* paths on which a write fails
    flushes,            \* history: the buffer content drained by each flush
    pipedAt,            \* history: Len(flushes) when each sink was registered
    second,             \* a second Logger of the same process: its own fields
    nCalls,             \* number of lines created by buffered log calls
    nOps,               \* number of operations and events handled so far
    lastOp              \* history: the operation or event handled last

vars == <<consoleOutput, synchronous, logBufferOverflow, overflowArg, files, logBuffer,
          disk, inflight, issued, console, pc, exitCode, raised, unwritable, flushes, pipedAt,
          second, nCalls, nOps, lastOp>>

-----------------------------------------------------------------------------
(* Bounds of the model *)

MaxOps == 4

(* Program constants and input domains *)

DefaultOverflow == 100

\* context labels and messages the host uses
Contexts == {"db", "http"}

Messages == {"m", "up"}

CapacityArgs == {-1, 0, 1, 2}

Paths == {"x.log", "y.log"}

ExitCodes == {0, 1}

-----------------------------------------------------------------------------
(* Text *)

Line(lvl, msg, arg) == [lvl |-> lvl, msg |-> msg, arg |-> arg]

NL == Line("NL", "\\n", 0)

FormattedLine(level, n) == Line(level, "m", n)

RECURSIVE JoinWith(_, _)
JoinWith(parts, sep) ==
    IF parts = <<>> THEN <<>>
    ELSE IF Len(parts) = 1 THEN <<parts[1]>>
    ELSE <<parts[1], sep>> \o JoinWith(Tail(parts), sep)

Join(lines) == JoinWith(lines, NL)

-----------------------------------------------------------------------------
(* The logger as a value: the methods below map one such value to the next *)

Cur ==
    [logBuffer |-> logBuffer, files |-> files, disk |-> disk,
     inflight |-> inflight, issued |-> issued, console |-> console,
     flushes |-> flushes, exitCode |-> exitCode, thrown |-> FALSE]

\* variant: a failed synchronous write is swallowed
appendFileSync_swallow(m, file, data) ==
    IF file \in unwritable
    THEN m
    ELSE [m EXCEPT !.disk[file] = @ \o data]

appendFileSync(m, file, data) ==
    IF file \in unwritable
    THEN [m EXCEPT !.thrown = TRUE]
    ELSE [m EXCEPT !.disk[file] = @ \o data]

\* variant: a path that does not accept writes makes the call itself throw
appendFile_throws(m, file, data) ==
    IF file \in unwritable
    THEN [m EXCEPT !.thrown = TRUE]
    ELSE [m EXCEPT !.inflight = @ \cup {[id |-> m.issued + 1, file |-> file, data |-> data]},
                   !.issued = @ + 1]

appendFile(m, file, data) ==
    [m EXCEPT !.inflight = @ \cup {[id |-> m.issued + 1, file |-> file, data |-> data]},
              !.issued = @ + 1]

RECURSIVE forEachFile(_, _, _, _)
forEachFile(m, fs, data, sync) ==
    IF fs = <<>> \/ m.thrown THEN m
    ELSE forEachFile(IF sync THEN appendFileSync(m, Head(fs), data)
                             ELSE appendFile(m, Head(fs), data),
                     Tail(fs), data, sync)

\* console.log(...args): one entry, the list of its arguments
consoleLog(m, args) == [m EXCEPT !.console = Append(@, args)]

\* variant: the buffer is not reset after the join
_writeToFile_keepsBuffer(m) ==
    LET linez == Join(m.logBuffer)
        m1 == [m EXCEPT !.flushes = Append(@, m.logBuffer)]
    IN  forEachFile(m1, m1.files, linez \o <<NL>>, synchronous)

_writeToFile(m) ==
    LET linez == Join(m.logBuffer)
        m1 == [m EXCEPT !.logBuffer = <<>>, !.flushes = Append(@, m.logBuffer)]
    IN  forEachFile(m1, m1.files, linez \o <<NL>>, synchronous)

\* variant: the lifecycle flush follows the mode of the logger
_writeToFileSync_respectsMode(m) ==
    LET linez == Join(m.logBuffer)
        m1 == [m EXCEPT !.logBuffer = <<>>, !.flushes = Append(@, m.logBuffer)]
    IN  forEachFile(m1, m1.files, linez \o <<NL>>, synchronous)

_writeToFileSync(m) ==
    LET linez == Join(m.logBuffer)
        m1 == [m EXCEPT !.logBuffer = <<>>, !.flushes = Append(@, m.logBuffer)]
    IN  forEachFile(m1, m1.files, linez \o <<NL>>, TRUE)

\* variant: no test of the buffer length
_writeBufferSync_unguarded(m) == _writeToFileSync(m)

_writeBufferSync(m) ==
    IF Len(m.logBuffer) > 0 THEN _writeToFileSync(m) ELSE m

\* variant: the overflow test is >= instead of >
_onChange_atCapacity(m, line) ==
    LET m1 == IF consoleOutput THEN consoleLog(m, <<line>>) ELSE m
        m2 == [m1 EXCEPT !.logBuffer = Append(@, line)]
    IN  IF Len(m2.logBuffer) >= logBufferOverflow THEN _writeToFile(m2) ELSE m2

\* variant: the line is put at the front of the buffer (unshift for push)
_onChange_unshift(m, line) ==
    LET m1 == IF consoleOutput THEN consoleLog(m, <<line>>) ELSE m
        m2 == [m1 EXCEPT !.logBuffer = <<line>> \o @]
    IN  IF Len(m2.logBuffer) > logBufferOverflow THEN _writeToFile(m2) ELSE m2

_onChange(m, line) ==
    LET m1 == IF consoleOutput THEN consoleLog(m, <<line>>) ELSE m
        m2 == [m1 EXCEPT !.logBuffer = Append(@, line)]
    IN  IF Len(m2.logBuffer) > logBufferOverflow THEN _writeToFile(m2) ELSE m2

_onChangeSync(m, line) ==
    LET m1 == IF consoleOutput THEN consoleLog(m, <<line>>) ELSE m
    IN  forEachFile(m1, m1.files, <<line, NL>>, TRUE)

\* variant: finfo appends without the overflow test
finfo_noOverflowTest(m, n) ==
    [m EXCEPT !.logBuffer = Append(@, FormattedLine("INFO", n))]

finfo(m, n) ==
    LET m2 == [m EXCEPT !.logBuffer = Append(@, FormattedLine("INFO", n))]
    IN  IF Len(m2.logBuffer) > logBufferOverflow THEN _writeToFile(m2) ELSE m2

\* info(message) and finfo(message) with the text of the message kept
infoText(m, message, n) == _onChange(m, Line("INFO", message, n))

finfoText(m, message, n) ==
    LET m2 == [m EXCEPT !.logBuffer = Append(@, Line("INFO", message, n))]
    IN  IF Len(m2.logBuffer) > logBufferOverflow THEN _writeToFile(m2) ELSE m2

\* `[${context}] ${message}`
ContextText(context, message) == "[" \o context \o "] " \o message

inContext_info(m, context, message, n) == infoText(m, ContextText(context, message), n)

\* variant: the file-only wrapper delegates to info
inFileContext_info_viaInfo(m, context, message, n) ==
    infoText(m, ContextText(context, message), n)

inFileContext_info(m, context, message, n) == finfoText(m, ContextText(context, message), n)

exitMsg(m, msg, arg) == _onChangeSync(m, Line("EXIT", msg, arg))

\* variant: the error object goes to the console only with consoleOutput
throw_consoleOptional(m, n) ==
    LET m1 == IF consoleOutput THEN consoleLog(m, <<Line("ERROROBJECT", "m", n)>>) ELSE m
        m2 == _onChange(m1, FormattedLine("ERROR", n))
    IN  IF m2.thrown THEN m2 ELSE _onChange(m2, FormattedLine("ERRORSTACK", n + 1))

throw(m, n) ==
    LET m1 == consoleLog(m, <<Line("ERROROBJECT", "m", n)>>)
        m2 == _onChange(m1, FormattedLine("ERROR", n))
    IN  IF m2.thrown THEN m2 ELSE _onChange(m2, FormattedLine("ERRORSTACK", n + 1))

\* variant: print flushes the buffer before it writes
print_flushFirst(m, msgs) ==
    LET m0 == _writeToFile(m)
    IN  forEachFile(consoleLog(m0, msgs), m0.files,
                    <<Line("CONSOLE OUTPUT", "", 0)>> \o JoinWith(msgs, Line("SP", " ", 0)) \o <<NL>>,
                    TRUE)

print(m, msgs) ==
    forEachFile(consoleLog(m, msgs), m.files,
                <<Line("CONSOLE OUTPUT", "", 0)>> \o JoinWith(msgs, Line("SP", " ", 0)) \o <<NL>>,
                TRUE)

printr(m, msgs) ==
    forEachFile(consoleLog(m, msgs), m.files,
                JoinWith(msgs, Line("SP", " ", 0)) \o <<NL>>, TRUE)

\* variant: the write follows the mode of the logger
printrf_respectsMode(m, msgs) ==
    forEachFile(m, m.files, JoinWith(msgs, Line("SP", " ", 0)) \o <<NL>>, synchronous)

printrf(m, msgs) ==
    forEachFile(m, m.files, JoinWith(msgs, Line("SP", " ", 0)) \o <<NL>>, TRUE)

BannerText ==
    <<"", "",
      "------------------------------------------------------------",
      "-- NEW LOGGING SESSION STARTED at",
      "-- Logging to",
      "-- CWD:", "-- OS:", "-- Node:", "-- PID:", "-- Uptime:",
      "-- Logged in as", "-- Total Memory:", "-- Free Memory:",
      "------------------------------------------------------------">>

BannerRow(k, file) ==
    IF k <= 2 THEN <<>>
    ELSE IF k = 5 THEN <<Line("BANNER", file, k)>>
    ELSE <<Line("BANNER", BannerText[k], k)>>

RECURSIVE banner(_, _, _)
banner(m, file, k) ==
    IF k > Len(BannerText) \/ m.thrown THEN m
    ELSE banner(printrf(m, BannerRow(k, file)), file, k + 1)

\* variant: the banner goes to the new file only
pipe_ownBanner(m, file) ==
    LET m1 == banner([m EXCEPT !.files = <<file>>], file, 1)
    IN  [m1 EXCEPT !.files = Append(m.files, file)]

\* variant: a path that is already registered is not registered again
pipe_noDuplicate(m, file) ==
    banner(IF \E i \in DOMAIN m.files : m.files[i] = file
           THEN m ELSE [m EXCEPT !.files = Append(@, file)],
           file, 1)

\* variant: the banner is written before the file is registered
pipe_bannerFirst(m, file) ==
    LET m1 == banner(m, file, 1)
    IN  IF m1.thrown THEN m1 ELSE [m1 EXCEPT !.files = Append(@, file)]

pipe(m, file) == banner([m EXCEPT !.files = Append(@, file)], file, 1)

-----------------------------------------------------------------------------
(* Process lifecycle *)

CodeText(event, code) ==
    IF code = 0 THEN event \o " event with code: unknown"
    ELSE event \o " event with code: "

beforeExitListener(m, code) ==
    LET m1 == _writeBufferSync(m)
    IN  IF m1.thrown THEN m1 ELSE exitMsg(m1, CodeText("Process beforeExit", code), code)

exitListener(m, code) ==
    LET m1 == _writeBufferSync(m)
    IN  IF m1.thrown THEN m1 ELSE exitMsg(m1, CodeText("Process exit", code), code)

\* variant: process.exit ends the process without emitting 'exit'
processExit_noEvent(m, code) == [m EXCEPT !.exitCode = code]

\* process.exit(code): emits 'exit' once, then the process is gone; a listener
\* that throws turns the status into a non-zero one (written 1 here)
processExit(m, code) ==
    LET m1 == exitListener(m, code)
    IN  [m1 EXCEPT !.exitCode = IF m1.thrown THEN 1 ELSE code]

\* variant: the runtime ends the process without emitting 'exit'
fatalException_noEvent(m) == [m EXCEPT !.exitCode = 1]

\* an exception that reaches the event loop: no 'uncaughtException' listener is
\* installed, so the runtime emits 'exit' with code 1 and the process dies
fatalException(m) ==
    [exitListener([m EXCEPT !.thrown = FALSE], 1) EXCEPT !.exitCode = 1]

\* variant: the EXIT line is written before the buffer is flushed
signalListener_exitMsgFirst(m, msg) ==
    LET m1 == exitMsg(m, msg, 0)
        m2 == IF m1.thrown THEN m1 ELSE _writeBufferSync(m1)
    IN  IF m2.thrown THEN fatalException(m2) ELSE processExit(m2, 0)

signalListener(m, msg) ==
    LET m1 == _writeBufferSync(m)
        m2 == IF m1.thrown THEN m1 ELSE exitMsg(m1, msg, 0)
    IN  IF m2.thrown THEN fatalException(m2) ELSE processExit(m2, 0)

-----------------------------------------------------------------------------
(* State machine *)

Running == pc = "RUNNING"

CanCall == Running /\ nOps < MaxOps

Commit(m) ==
    /\ logBuffer' = m.logBuffer
    /\ files' = m.files
    /\ disk' = m.disk
    /\ inflight' = m.inflight
    /\ issued' = m.issued
    /\ console' = m.console
    /\ flushes' = m.flushes
    /\ raised' = m.thrown

\* what no operation of the first logger writes: the configuration and the
\* fields of the second logger
Config == <<consoleOutput, synchronous, logBufferOverflow, overflowArg, second>>

\* no second logger yet / a second logger just constructed (same arguments)
NoLogger == [constructed |-> FALSE, logBuffer |-> <<>>, files |-> <<>>, flushes |-> <<>>]

FreshLogger == [NoLogger EXCEPT !.constructed = TRUE]

\* variant: zero is replaced by the default too
NormalizeOverflow_nonPositive(arg) == IF arg <= 0 THEN DefaultOverflow ELSE arg

NormalizeOverflow(arg) == IF arg < 0 THEN DefaultOverflow ELSE arg

Init ==
    /\ consoleOutput \in BOOLEAN
    /\ synchronous \in BOOLEAN
    /\ overflowArg \in CapacityArgs
    /\ logBufferOverflow = NormalizeOverflow(overflowArg)
    /\ files = <<>>
    /\ logBuffer = <<>>
    /\ disk = [f \in Paths |-> <<>>]
    /\ inflight = {}
    /\ issued = 0
    /\ console = <<>>
    /\ pc = "RUNNING"
    /\ exitCode = -1
    /\ raised = FALSE
    /\ unwritable = {}
    /\ flushes = <<>>
    /\ pipedAt = <<>>
    /\ second = NoLogger
    /\ nCalls = 0
    /\ nOps = 0
    /\ lastOp = "new"

\* an operation of the API returns (or throws) to the host, which goes on
Returned(op, m, lines) ==
    /\ Commit(m)
    /\ lastOp' = op
    /\ nCalls' = nCalls + lines
    /\ nOps' = nOps + 1
    /\ UNCHANGED <<Config, pc, exitCode, unwritable, pipedAt>>

\* a callback of the event loop returns; an exception it throws is fatal
CalledBack(op, m) ==
    /\ lastOp' = op
    /\ IF m.thrown
       THEN /\ Commit([fatalException(m) EXCEPT !.thrown = TRUE])
            /\ pc' = "TERMINATED" /\ exitCode' = 1
       ELSE Commit(m) /\ UNCHANGED <<pc, exitCode>>
    /\ nOps' = nOps + 1
    /\ UNCHANGED <<Config, unwritable, pipedAt, nCalls>>

Terminated(op, m) ==
    /\ Commit(m)
    /\ lastOp' = op
    /\ pc' = "TERMINATED"
    /\ exitCode' = m.exitCode
    /\ nOps' = nOps + 1
    /\ UNCHANGED <<Config, unwritable, pipedAt, nCalls>>

Info == CanCall /\ Returned("info", _onChange(Cur, FormattedLine("INFO", nCalls + 1)), 1)

Debug == CanCall /\ Returned("debug", _onChange(Cur, FormattedLine("DEBUG", nCalls + 1)), 1)

Warn == CanCall /\ Returned("warn", _onChange(Cur, FormattedLine("WARN", nCalls + 1)), 1)

Error == CanCall /\ Returned("error", _onChange(Cur, FormattedLine("ERROR", nCalls + 1)), 1)

InContextInfo ==
    /\ CanCall
    /\ \E context \in Contexts, message \in Messages :
          Returned("inContext.info", inContext_info(Cur, context, message, nCalls + 1), 1)

InFileContextInfo ==
    /\ CanCall
    /\ \E context \in Contexts, message \in Messages :
          Returned("inFileContext.info", inFileContext_info(Cur, context, message, nCalls + 1), 1)

Finfo == CanCall /\ Returned("finfo", finfo(Cur, nCalls + 1), 1)

Throw == CanCall /\ Returned("throw", throw(Cur, nCalls + 1), 2)

WriteNow == CanCall /\ Returned("writeNow", _writeToFile(Cur), 0)

\* variant: the callback of the timer does nothing
TimerTick_idle == CanCall /\ CalledBack("timer", Cur)

\* the setInterval callback
TimerTick == CanCall /\ CalledBack("timer", _writeToFile(Cur))

\* completion of one fs.appendFile; its callback ignores the error
CompleteWrite ==
    /\ Running
    /\ \E w \in inflight :
          /\ inflight' = inflight \ {w}
          /\ disk' = IF w.file \in unwritable THEN disk
                     ELSE [disk EXCEPT ![w.file] = @ \o w.data]
    /\ lastOp' = "appendFile callback"
    /\ UNCHANGED <<Config, files, logBuffer, issued, console, pc, exitCode, raised,
                   unwritable, flushes, pipedAt, nCalls, nOps>>

Pipe ==
    /\ CanCall
    /\ \E file \in Paths : Commit(pipe(Cur, file))
    /\ pipedAt' = Append(pipedAt, Len(flushes))
    /\ nOps' = nOps + 1
    /\ lastOp' = "pipe"
    /\ UNCHANGED <<Config, pc, exitCode, unwritable, nCalls>>

PrintCall == CanCall /\ Returned("print", print(Cur, <<Line("TEXT", "p", nOps + 1)>>), 0)

PrintrCall == CanCall /\ Returned("printr", printr(Cur, <<Line("TEXT", "p", nOps + 1)>>), 0)

PrintrfCall == CanCall /\ Returned("printrf", printrf(Cur, <<Line("TEXT", "p", nOps + 1)>>), 0)

ExitMsg == CanCall /\ Returned("exitMsg", exitMsg(Cur, "p", nOps + 1), 0)

\* the 'beforeExit' listener
BeforeExit == CanCall /\ \E code \in ExitCodes : CalledBack("beforeExit", beforeExitListener(Cur, code))

\* the host calls process.exit(code): the 'exit' listener runs, the process ends
Exit == Running /\ \E code \in ExitCodes : Terminated("exit", processExit(Cur, code))

SIGTERM == Running /\ Terminated("SIGTERM", signalListener(Cur, "Process pid received a SIGTERM signal"))

SIGINT == Running /\ Terminated("SIGINT", signalListener(Cur, "Process pid has been interrupted"))

\* the host throws an error that nothing catches
UncaughtException == Running /\ Terminated("uncaughtException", fatalException(Cur))

-----------------------------------------------------------------------------
(* A second Logger in the same process: own buffer and sink list, the file
   system, the console and the process are shared *)

\* the second logger as a value
SecondCur ==
    [logBuffer |-> second.logBuffer, files |-> second.files, disk |-> disk,
     inflight |-> inflight, issued |-> issued, console |-> console,
     flushes |-> second.flushes, exitCode |-> exitCode, thrown |-> FALSE]

\* the logger value m seeing what `from` did to files, console and process
After(m, from) ==
    [m EXCEPT !.disk = from.disk, !.inflight = from.inflight, !.issued = from.issued,
              !.console = from.console, !.exitCode = from.exitCode]

\* the fields of both loggers after a listener ran on them: a is the first, b the second
BothLoggers(a, b) == [first |-> a, second |-> b]

\* variant: process.exit runs the 'exit' listener of the calling logger only
signalListenerBoth_ownExit(a, b, msg) ==
    LET a1 == exitMsg(_writeBufferSync(a), msg, 0)
        a2 == processExit(a1, 0)
    IN  BothLoggers(a2, After(b, a2))

\* a signal with two loggers constructed: the listener of the first flushes,
\* writes its line and calls process.exit(0), which emits 'exit' to the
\* listeners of both in the order of construction; the signal listener of the
\* second never runs
signalListenerBoth(a, b, msg) ==
    LET a1 == exitMsg(_writeBufferSync(a), msg, 0)
        a2 == processExit(a1, 0)
        b1 == exitListener(After(b, a2), 0)
    IN  BothLoggers(After(a2, b1), b1)

CommitSecond(b) ==
    /\ second' = [second EXCEPT !.logBuffer = b.logBuffer, !.files = b.files,
                                 !.flushes = b.flushes]
    /\ disk' = b.disk
    /\ inflight' = b.inflight
    /\ issued' = b.issued
    /\ console' = b.console
    /\ raised' = b.thrown

\* the host constructs the second logger
NewLogger ==
    /\ Running /\ ~second.constructed
    /\ second' = FreshLogger
    /\ lastOp' = "new second"
    /\ UNCHANGED <<consoleOutput, synchronous, logBufferOverflow, overflowArg, files,
                   logBuffer, disk, inflight, issued, console, pc, exitCode, raised,
                   unwritable, flushes, pipedAt, nCalls, nOps>>

SecondReturned(op, b, lines) ==
    /\ CommitSecond(b)
    /\ lastOp' = op
    /\ nCalls' = nCalls + lines
    /\ nOps' = nOps + 1
    /\ UNCHANGED <<consoleOutput, synchronous, logBufferOverflow, overflowArg, files,
                   logBuffer, flushes, pc, exitCode, unwritable, pipedAt>>

SecondInfo ==
    /\ CanCall /\ second.constructed
    /\ SecondReturned("second.info", _onChange(SecondCur, FormattedLine("INFO", nCalls + 1)), 1)

SecondPipe ==
    /\ CanCall /\ second.constructed
    /\ \E file \in Paths : SecondReturned("second.pipe", pipe(SecondCur, file), 0)

SignalBoth(op, msg) ==
    /\ LET r == signalListenerBoth(Cur, SecondCur, msg)
       IN  /\ logBuffer' = r.first.logBuffer
           /\ files' = r.first.files
           /\ flushes' = r.first.flushes
           /\ CommitSecond(r.second)
           /\ exitCode' = r.first.exitCode
    /\ pc' = "TERMINATED"
    /\ lastOp' = op
    /\ nOps' = nOps + 1
    /\ UNCHANGED <<consoleOutput, synchronous, logBufferOverflow, overflowArg,
                   unwritable, pipedAt, nCalls>>

SIGTERMBoth ==
    /\ Running /\ second.constructed
    /\ SignalBoth("SIGTERM both", "Process pid received a SIGTERM signal")

SIGINTBoth ==
    /\ Running /\ second.constructed
    /\ SignalBoth("SIGINT both", "Process pid has been interrupted")

\* environment: a path stops accepting writes
BreakSink ==
    /\ CanCall
    /\ \E f \in Paths \ unwritable : unwritable' = unwritable \cup {f}
    /\ nOps' = nOps + 1
    /\ lastOp' = "break"
    /\ UNCHANGED <<Config, files, logBuffer, disk, inflight, issued, console, pc, exitCode,
                   raised, flushes, pipedAt, nCalls>>

Next ==
    \/ Info \/ Debug \/ Warn \/ Error \/ Finfo \/ Throw
    \/ InContextInfo \/ InFileContextInfo
    \/ WriteNow \/ TimerTick \/ CompleteWrite
    \/ Pipe
    \/ PrintCall \/ PrintrCall \/ PrintrfCall \/ ExitMsg
    \/ BeforeExit \/ Exit \/ SIGTERM \/ SIGINT \/ UncaughtException

Spec == Init /\ [][Next]_vars

\* the host only logs, flushes and registers sinks
NextBuffer ==
    \/ Info \/ Debug \/ Warn \/ Error \/ Finfo
    \/ WriteNow \/ TimerTick \/ CompleteWrite
    \/ Pipe

SpecBuffer == Init /\ [][NextBuffer]_vars

\* the host logs, registers sinks, and the process ends
NextLifecycle ==
    \/ Info \/ Finfo \/ WriteNow \/ CompleteWrite \/ Pipe
    \/ BeforeExit \/ Exit \/ SIGTERM \/ SIGINT

SpecLifecycle == Init /\ [][NextLifecycle]_vars

\* as NextLifecycle, with the timer and with paths that stop accepting writes
NextFail ==
    \/ Info \/ Finfo \/ WriteNow \/ TimerTick \/ CompleteWrite \/ Pipe
    \/ BeforeExit \/ Exit \/ SIGTERM \/ SIGINT
    \/ BreakSink

SpecFail == Init /\ [][NextFail]_vars

\* the host logs and flushes while paths stop accepting writes
NextSinkFailure ==
    \/ Info \/ Finfo \/ WriteNow \/ TimerTick \/ CompleteWrite \/ Pipe
    \/ BreakSink

SpecSinkFailure == Init /\ [][NextSinkFailure]_vars

\* the host logs values and errors; asynchronous writes stay pending
NextThrow ==
    \/ Info \/ Throw \/ WriteNow \/ Pipe

SpecThrow == Init /\ [][NextThrow]_vars

\* the host logs, then throws an error that nothing catches
NextFault ==
    \/ Info \/ Finfo \/ WriteNow \/ CompleteWrite \/ Pipe
    \/ UncaughtException

SpecFault == Init /\ [][NextFault]_vars

\* the host mixes buffered and immediate operations
NextImmediate ==
    \/ Info \/ CompleteWrite \/ Pipe
    \/ PrintCall \/ PrintrCall \/ PrintrfCall \/ ExitMsg

SpecImmediate == Init /\ [][NextImmediate]_vars

\* the host logs through context wrappers; asynchronous writes stay pending
NextContext ==
    \/ InContextInfo \/ InFileContextInfo \/ Pipe

SpecContext == Init /\ [][NextContext]_vars

\* every kind of operation: log calls, immediate writes, flushes, the timer,
\* the lifecycle listeners (runs one operation shorter than the others)
NextSinks ==
    /\ nOps + 1 < MaxOps
    /\ \/ Info \/ Finfo \/ Throw
       \/ WriteNow \/ TimerTick \/ CompleteWrite
       \/ Pipe
       \/ PrintCall \/ PrintrCall \/ PrintrfCall \/ ExitMsg
       \/ BeforeExit \/ Exit \/ SIGTERM \/ SIGINT \/ UncaughtException

SpecSinks == Init /\ [][NextSinks]_vars

\* two loggers in one process, until a signal ends it
NextTwoLoggers ==
    \/ NewLogger
    \/ Info \/ Pipe \/ SecondInfo \/ SecondPipe
    \/ SIGTERMBoth \/ SIGINTBoth

SpecTwoLoggers == Init /\ [][NextTwoLoggers]_vars

\* the host logs without ever flushing itself; the interval timer keeps firing
\* while the process runs (the last step of a run is left to it)
NextTimer ==
    \/ nOps + 1 < MaxOps /\ (Info \/ Finfo \/ Pipe)
    \/ TimerTick \/ CompleteWrite

SpecTimer == Init /\ [][NextTimer]_vars /\ WF_vars(TimerTick)

-----------------------------------------------------------------------------
(* Vocabulary of the properties *)

Last(s) == s[Len(s)]

Range(s) == {s[i] : i \in DOMAIN s}

RECURSIVE Repeat(_, _)
Repeat(s, n) == IF n = 0 THEN <<>> ELSE s \o Repeat(s, n - 1)

Suffix(s, from) == SubSeq(s, from + 1, Len(s))

IsPrefix(s, t) == Len(s) <= Len(t) /\ SubSeq(t, 1, Len(s)) = s

\* how many times a path is in the sink list
Registrations(f) == Cardinality({i \in DOMAIN files : files[i] = f})

\* the text one flush of `lines` hands to a sink
Written(lines) == Join(lines) \o <<NL>>

BufferedLevels == {"INFO", "DEBUG", "WARN", "ERROR", "ERRORSTACK"}

IsLogLine(t) == t.lvl \in BufferedLevels

IsExitLine(t) == t.lvl = "EXIT"

\* the lines of buffered log calls a path holds, in file order
LogLines(f) == SelectSeq(disk[f], IsLogLine)

BufferedCall == Info \/ Debug \/ Warn \/ Error \/ Finfo

\* the writes a step put in flight
NewWrites == {w \in inflight' : w.id > issued}

\* the step handed `data` to every sink once per registration, in the mode `sync`
HandedOver(data, sync) ==
    IF sync
    THEN /\ \A f \in Paths : disk'[f] = disk[f] \o Repeat(data, Registrations(f))
         /\ inflight' = inflight
    ELSE /\ disk' = disk
         /\ inflight' = inflight \cup NewWrites
         /\ \A w \in NewWrites : w.data = data
         /\ \A f \in Paths : Cardinality({w \in NewWrites : w.file = f}) = Registrations(f)

-----------------------------------------------------------------------------
(* C1: with capacity C, a buffered log call that finds fewer than C lines in
   the buffer only appends its line and flushes nothing; the call that finds
   C lines (the (C+1)-th append since the buffer was empty) makes exactly one
   flush, of those C lines and its own, in order: that text reaches every
   sink and the buffer is empty when the call returns. *)
OverflowFlushesOnce ==
    [][BufferedCall =>
          IF Len(logBuffer) < logBufferOverflow
          THEN /\ flushes' = flushes
               /\ Len(logBuffer') = Len(logBuffer) + 1
               /\ SubSeq(logBuffer', 1, Len(logBuffer)) = logBuffer
               /\ Last(logBuffer').arg = nCalls + 1
               /\ disk' = disk /\ inflight' = inflight
          ELSE /\ Len(flushes') = Len(flushes) + 1
               /\ SubSeq(flushes', 1, Len(flushes)) = flushes
               /\ Len(Last(flushes')) = logBufferOverflow + 1
               /\ SubSeq(Last(flushes'), 1, Len(logBuffer)) = logBuffer
               /\ Last(Last(flushes')).arg = nCalls + 1
               /\ HandedOver(Written(Last(flushes')), synchronous)
               /\ logBuffer' = <<>>]_vars

\* a third call has overflowed a buffer of capacity 2 into a registered sink
OverflowFlushesOnceWitness ==
    /\ logBufferOverflow = 2 /\ nCalls = 3 /\ nOps = 4 /\ Len(files) = 1
    /\ lastOp \in {"info", "debug", "warn", "error", "finfo"}
    /\ Len(flushes) = 1 /\ Len(flushes[1]) = 3 /\ logBuffer = <<>>
    /\ Len(LogLines(files[1])) = 3

(* C2: capacity 2, synchronous, one sink registered before any flush, then
   three info calls and nothing else. *)
ScenarioThreeInfos ==
    /\ synchronous /\ logBufferOverflow = 2
    /\ Len(files) = 1 /\ pipedAt = <<0>>
    /\ nCalls = 3 /\ nOps = 4
    /\ lastOp \in {"info", "finfo"}
    /\ \A fl \in Range(flushes) : \A l \in Range(fl) : l.lvl = "INFO"
    /\ \A l \in Range(logBuffer) : l.lvl = "INFO"

(* C2, as stated: after the third call the sink holds exactly the lines a and
   b, and the buffer holds the pending line c. *)
ThreeInfosFlushTwo ==
    ScenarioThreeInfos =>
        /\ LogLines(files[1]) = <<FormattedLine("INFO", 1), FormattedLine("INFO", 2)>>
        /\ logBuffer = <<FormattedLine("INFO", 3)>>

(* C2, amended: after the third call the sink holds the three lines a, b and
   c, written by one flush after the banner, and the buffer is empty. *)
ThreeInfosFlushThree ==
    ScenarioThreeInfos =>
        /\ LogLines(files[1]) =
              <<FormattedLine("INFO", 1), FormattedLine("INFO", 2), FormattedLine("INFO", 3)>>
        /\ disk[files[1]] = pipe([Cur EXCEPT !.files = <<>>, !.disk = [f \in Paths |-> <<>>]],
                                 files[1]).disk[files[1]]
                            \o Written(<<FormattedLine("INFO", 1), FormattedLine("INFO", 2),
                                         FormattedLine("INFO", 3)>>)
        /\ Len(flushes) = 1
        /\ logBuffer = <<>>

ThreeInfosWitness == ScenarioThreeInfos /\ Len(disk[files[1]]) > 0

(* C3: a writeNow call or a timer tick that finds the buffer empty leaves the
   content of every path as it was, puts no write in flight and raises no
   error. *)
EmptyFlushWritesNothing ==
    [][((WriteNow \/ TimerTick) /\ logBuffer = <<>>) =>
          (disk' = disk /\ inflight' = inflight /\ ~raised')]_vars

(* C4: writeNow on a buffer of k >= 1 lines L1..Lk hands the text
   L1 \n L2 \n ... Lk \n to every sink, once per registration of its path (at
   once in synchronous mode, as one pending write per registration otherwise),
   and leaves the buffer empty. *)
RoundTrip ==
    [][(WriteNow /\ logBuffer # <<>>) =>
          /\ HandedOver(Written(logBuffer), synchronous)
          /\ Len(Written(logBuffer)) = 2 * Len(logBuffer)
          /\ \A k \in DOMAIN logBuffer :
                /\ Written(logBuffer)[2 * k - 1] = logBuffer[k]
                /\ Written(logBuffer)[2 * k] = NL
          /\ logBuffer' = <<>>]_vars

\* writeNow has written two buffered lines to a registered sink
RoundTripWitness ==
    /\ lastOp = "writeNow" /\ synchronous /\ logBuffer = <<>>
    /\ Len(files) = 1 /\ nCalls = 2
    /\ Len(flushes) = 1 /\ Len(flushes[1]) = 2
    /\ Suffix(disk[files[1]], Len(disk[files[1]]) - 4) = Written(flushes[1])

LifecycleEvent == BeforeExit \/ Exit \/ SIGTERM \/ SIGINT

Signal == SIGTERM \/ SIGINT

\* s is a sequence of EXIT lines, each followed by a newline
OnlyExitLines(s) ==
    /\ Len(s) % 2 = 0
    /\ \A i \in DOMAIN s : IF i % 2 = 1 THEN IsExitLine(s[i]) ELSE s[i] = NL

\* what a step appended to a path
Added(f) == Suffix(disk'[f], Len(disk[f]))

(* C5: _writeBufferSync called twice in succession: the second call changes
   no path, flushes nothing and leaves the buffer empty.  In a signal handler
   the two calls are those of the signal listener and of the 'exit' listener
   that process.exit runs: only EXIT lines separate their results. *)
SyncFlushIdempotent ==
    [][LifecycleEvent =>
          LET once == _writeBufferSync(Cur)
              twice == _writeBufferSync(once)
          IN  /\ twice.disk = once.disk
              /\ twice.flushes = once.flushes
              /\ twice.logBuffer = <<>>
              /\ ~twice.thrown
              /\ Signal =>
                    /\ flushes' = once.flushes
                    /\ \A f \in Paths :
                          /\ IsPrefix(once.disk[f], disk'[f])
                          /\ OnlyExitLines(Suffix(disk'[f], Len(once.disk[f])))]_vars

\* a signal arrived with lines pending: the first call flushed them to a sink
SyncFlushIdempotentWitness ==
    /\ lastOp = "SIGINT" /\ pc = "TERMINATED"
    /\ Len(files) = 1 /\ pipedAt = <<0>>
    /\ Len(flushes) = 1 /\ Len(flushes[1]) = 2
    /\ LogLines(files[1]) = flushes[1]

InCallOrder(s) == \A i, j \in DOMAIN s : i < j => s[i].arg < s[j].arg

\* a line that is in s for the first time at j was called after all lines before it
FirstsInCallOrder(s) ==
    \A j \in DOMAIN s :
        (\A k \in 1..(j - 1) : s[k].arg # s[j].arg) => \A i \in 1..(j - 1) : s[i].arg < s[j].arg

(* C6: in synchronous mode the buffered lines are in every path in the order
   of their calls (a path registered once holds them in strictly increasing
   call order; a path registered several times holds each flush several times,
   and the first copies are in call order), and the lines still in the buffer
   are in call order and later than every line written. *)
SinkOrder ==
    synchronous =>
        /\ InCallOrder(logBuffer)
        /\ \A f \in Paths :
              /\ FirstsInCallOrder(LogLines(f))
              /\ Registrations(f) <= 1 => InCallOrder(LogLines(f))
              /\ \A a \in Range(LogLines(f)) : \A b \in Range(logBuffer) : a.arg < b.arg

\* a sink holds lines of two levels, written by two flushes, and a line is pending
SinkOrderWitness ==
    /\ synchronous /\ Len(files) = 1 /\ Len(flushes) = 2
    /\ Len(LogLines(files[1])) = 2
    /\ LogLines(files[1])[1].lvl # LogLines(files[1])[2].lvl
    /\ lastOp \in {"writeNow", "timer"}

(* C7: each of the listeners of beforeExit, exit, SIGTERM and SIGINT writes
   every line pending in the buffer to every registered sink before the first
   EXIT line it writes there, and leaves the buffer empty; the process is
   never TERMINATED with a line in the buffer. *)
LifecycleFlushFirst ==
    [][/\ LifecycleEvent =>
             /\ logBuffer' = <<>>
             /\ \A f \in Range(files) :
                   /\ IsPrefix(disk[f], disk'[f])
                   /\ \E q \in DOMAIN Added(f) : IsExitLine(Added(f)[q])
                   /\ \A k \in DOMAIN logBuffer :
                         \E p \in DOMAIN Added(f) :
                            /\ Added(f)[p] = logBuffer[k]
                            /\ \A q \in DOMAIN Added(f) : IsExitLine(Added(f)[q]) => p < q
       /\ pc' = "TERMINATED" => logBuffer' = <<>>]_vars

\* SIGTERM arrived with two lines pending and a sink registered
LifecycleFlushFirstWitness ==
    /\ lastOp = "SIGTERM" /\ pc = "TERMINATED"
    /\ Len(files) = 1 /\ pipedAt = <<0>>
    /\ Len(flushes) = 1 /\ Len(flushes[1]) = 2
    /\ \E q \in DOMAIN disk[files[1]] : IsExitLine(disk[files[1]][q])

ExitLines(s) == SelectSeq(s, IsExitLine)

(* C8, as stated: a SIGINT or SIGTERM appends exactly one EXIT line to each
   registered sink. *)
OneExitLinePerSignal ==
    [][Signal => \A f \in Range(files) : Len(ExitLines(Added(f))) = Registrations(f)]_vars

SignalText == {"Process pid received a SIGTERM signal", "Process pid has been interrupted"}

(* C8, amended: a SIGINT or SIGTERM appends to each registered sink the
   flushed buffer content and then two EXIT lines: the line of the signal
   listener, and the line of the 'exit' listener that process.exit(0) runs
   (which reads "code: unknown"); each once per registration of the path. *)
TwoExitLinesPerSignal ==
    [][Signal =>
          \E text \in SignalText :
             \A f \in Paths :
                Added(f) =
                    Repeat(IF logBuffer = <<>> THEN <<>> ELSE Written(logBuffer), Registrations(f))
                    \o Repeat(<<Line("EXIT", text, 0), NL>>, Registrations(f))
                    \o Repeat(<<Line("EXIT", "Process exit event with code: unknown", 0), NL>>,
                              Registrations(f))]_vars

\* SIGINT arrived with a line pending: a sink holds the line and two EXIT lines
TwoExitLinesWitness ==
    /\ lastOp = "SIGINT" /\ pc = "TERMINATED"
    /\ Len(files) = 1 /\ Len(flushes) = 1 /\ Len(flushes[1]) = 1
    /\ Len(ExitLines(disk[files[1]])) = 2
    /\ Len(LogLines(files[1])) = 1

(* C9: in asynchronous mode, when the process is TERMINATED every line that
   was flushed while a sink was registered is in that sink. *)
NoLossAtExit ==
    (pc = "TERMINATED" /\ ~synchronous) =>
        \A i \in DOMAIN files :
           \A j \in (pipedAt[i] + 1)..Len(flushes) :
              \A l \in Range(flushes[j]) : l \in Range(disk[files[i]])

(* C10: an operation that flushes and ends by throwing leaves in the buffer
   every line the buffer held when the operation started. *)
FailedFlushKeepsBuffer ==
    [][(raised' /\ Len(flushes') > Len(flushes)) =>
          \A l \in Range(logBuffer) : l \in Range(logBuffer')]_vars

-----------------------------------------------------------------------------
\* the registered sinks that do not accept writes
FailingSinks == {i \in DOMAIN files : files[i] \in unwritable}

\* the first of them in the sink list: the write that fails
FirstFailing == CHOOSE i \in FailingSinks : \A j \in FailingSinks : i <= j

\* how many times a path is among the first n sinks
RegistrationsBefore(f, n) == Cardinality({i \in 1..n : files[i] = f})

(* C11: in synchronous mode, when an info, finfo or writeNow call makes a
   flush and a registered sink does not accept the write, the call throws to
   its caller; the sinks before the failing one have the text once per
   registration, the failing path is left as it was, no write is left
   pending and the lines are not kept for another attempt. With every
   registered sink writable the same call returns normally. *)
SyncFailurePropagates ==
    [][(Info \/ Finfo \/ WriteNow) /\ synchronous /\ flushes' # flushes =>
          IF FailingSinks = {}
          THEN ~raised'
          ELSE /\ raised'
               /\ pc' = pc
               /\ inflight' = inflight
               /\ logBuffer' = <<>>
               /\ \A f \in unwritable : disk'[f] = disk[f]
               /\ \A f \in Paths \ unwritable :
                     disk'[f] = disk[f] \o Repeat(Written(Last(flushes')),
                                                 RegistrationsBefore(f, FirstFailing - 1))]_vars

\* an overflowing info threw after the earlier sink took the text
SyncFailurePropagatesWitness ==
    /\ synchronous /\ raised /\ lastOp = "info"
    /\ Len(files) = 2 /\ files[1] \notin unwritable /\ files[2] \in unwritable
    /\ LogLines(files[1]) # <<>> /\ LogLines(files[2]) = <<>>

(* C12: in asynchronous mode an info, finfo, writeNow or timer tick that
   makes a flush returns normally whatever the sinks accept: the buffer is
   empty and one write per registration is pending, also for the paths that
   accept writes. The completion of a pending write on a path that does not
   accept it changes no file, raises nothing and issues no new write; on a
   path that accepts it the text is appended. *)
AsyncFailureDiscarded ==
    [][~synchronous =>
          /\ (Info \/ Finfo \/ WriteNow \/ TimerTick) /\ flushes' # flushes =>
                /\ ~raised'
                /\ pc' = pc
                /\ logBuffer' = <<>>
                /\ HandedOver(Written(Last(flushes')), FALSE)
          /\ CompleteWrite =>
                /\ raised' = raised /\ pc' = pc /\ issued' = issued /\ logBuffer' = logBuffer
                /\ \E w \in inflight :
                      /\ inflight' = inflight \ {w}
                      /\ \A f \in Paths :
                            disk'[f] = IF f = w.file /\ f \notin unwritable
                                       THEN disk[f] \o w.data ELSE disk[f]]_vars

\* one flush went to a failing and to a working sink; all its writes completed
AsyncFailureDiscardedWitness ==
    /\ ~synchronous /\ ~raised /\ lastOp = "appendFile callback" /\ inflight = {}
    /\ Len(files) = 2 /\ files[1] \in unwritable /\ files[2] \notin unwritable
    /\ LogLines(files[1]) = <<>> /\ LogLines(files[2]) # <<>>
    /\ logBuffer = <<>>

-----------------------------------------------------------------------------
(* C13 as stated: every capacity argument that is zero or negative gives the
   threshold 100, so the threshold is greater than 0. *)
NonPositiveCapacityBecomesDefault ==
    /\ overflowArg <= 0 => logBufferOverflow = DefaultOverflow
    /\ logBufferOverflow > 0

(* C13 amended: a negative capacity argument gives the threshold 100 and no
   error at construction; zero and positive arguments are kept as they are,
   so the threshold is at least 0, and with the threshold 0 no line stays in
   the buffer. *)
NegativeCapacityBecomesDefault ==
    /\ overflowArg < 0 => logBufferOverflow = DefaultOverflow
    /\ overflowArg >= 0 => logBufferOverflow = overflowArg
    /\ logBufferOverflow >= 0
    /\ lastOp = "new" => ~raised /\ pc = "RUNNING"
    /\ overflowArg = 0 => logBuffer = <<>>

\* constructed with capacity 0: the first info was flushed on its own
ZeroCapacityWitness ==
    /\ overflowArg = 0 /\ logBufferOverflow = 0
    /\ lastOp = "info" /\ nCalls = 1
    /\ logBuffer = <<>> /\ flushes = <<<<FormattedLine("INFO", 1)>>>>

(* C14: in every state between operations (after a log call, writeNow, a
   timer tick, pipe, a completion or a lifecycle listener) the buffer holds
   at most logBufferOverflow lines; no flush ever drained more than
   logBufferOverflow + 1 lines, the one line over being that of the append
   which triggered it. *)
BufferBound ==
    /\ Len(logBuffer) <= logBufferOverflow
    /\ \A i \in DOMAIN flushes : Len(flushes[i]) <= logBufferOverflow + 1

\* the buffer is full to the threshold after a finfo
BufferBoundWitness ==
    /\ lastOp = "finfo" /\ logBufferOverflow = 2 /\ Len(logBuffer) = 2

RECURSIVE Flatten(_)
Flatten(ss) == IF ss = <<>> THEN <<>> ELSE Head(ss) \o Flatten(Tail(ss))

Count(s, t) == Cardinality({i \in DOMAIN s : s[i] = t})

\* every line appended so far, drained or not
Appended == Flatten(flushes) \o logBuffer

\* how many times a path has or is about to have a line
Deliveries(f, t) ==
    Count(disk[f], t) + Cardinality({w \in inflight : w.file = f /\ t \in Range(w.data)})

(* C15: whatever the interleaving of overflow flushes, timer ticks, writeNow
   calls and lifecycle listeners, every appended line is in at most one
   flush or still in the buffer, never both and never twice; a path that
   is registered once holds each line, counting the writes still pending on
   it, at most once. *)
AtMostOnce ==
    /\ \A i, j \in DOMAIN Appended : Appended[i] = Appended[j] => i = j
    /\ \A w \in inflight : \A t \in Range(w.data) : IsLogLine(t) => Count(w.data, t) = 1
    /\ \A f \in Paths : Registrations(f) <= 1 =>
          \A t \in Range(Appended) : Deliveries(f, t) <= 1

\* two overflow flushes reached the one sink, then a lifecycle listener ran
AtMostOnceWitness ==
    /\ Len(files) = 1 /\ unwritable = {} /\ inflight = {}
    /\ Len(flushes) = 2 /\ flushes[1] # <<>> /\ flushes[2] # <<>>
    /\ lastOp \in {"exit", "SIGTERM", "SIGINT"}
    /\ \A t \in Range(Appended) : Deliveries(files[1], t) = 1

\* the text one pipe(file) writes
RECURSIVE BannerFrom(_, _)
BannerFrom(file, k) ==
    IF k > Len(BannerText) THEN <<>>
    ELSE JoinWith(BannerRow(k, file), Line("SP", " ", 0)) \o <<NL>> \o BannerFrom(file, k + 1)

BannerBlock(file) == BannerFrom(file, 1)

\* pipe("x.log"), pipe("y.log"), info(hi), with only flushes and completions around
ScenarioTwoSinks ==
    /\ files = <<"x.log", "y.log">> /\ pipedAt = <<0, 0>>
    /\ nCalls = 1 /\ Appended = <<FormattedLine("INFO", 1)>>

(* C16: after pipe(x), pipe(y), info(hi): x begins with x's banner block
   followed by y's, y begins with y's banner block, neither holds a log
   line inside the banners; once hi has left the buffer and no write is
   pending, each of x and y holds hi exactly once, and never more than
   once before that. *)
TwoSinksScenario ==
    ScenarioTwoSinks =>
        /\ IsPrefix(BannerBlock("x.log") \o BannerBlock("y.log"), disk["x.log"])
        /\ IsPrefix(BannerBlock("y.log"), disk["y.log"])
        /\ \A f \in Paths :
              /\ Count(disk[f], FormattedLine("INFO", 1)) <= 1
              /\ logBuffer = <<>> /\ inflight = {} =>
                    Count(disk[f], FormattedLine("INFO", 1)) = 1
        /\ synchronous /\ logBuffer = <<>> =>
              /\ disk["x.log"] = BannerBlock("x.log") \o BannerBlock("y.log")
                                     \o Flatten([i \in DOMAIN flushes |-> Written(flushes[i])])
              /\ disk["y.log"] = BannerBlock("y.log")
                                     \o Flatten([i \in DOMAIN flushes |-> Written(flushes[i])])

\* the scenario ran in asynchronous mode and both writes of the flush completed
TwoSinksScenarioWitness ==
    /\ ScenarioTwoSinks /\ ~synchronous
    /\ logBuffer = <<>> /\ inflight = {} /\ Len(flushes) = 1
    /\ lastOp = "appendFile callback"
    /\ \A f \in Paths : Count(disk[f], FormattedLine("INFO", 1)) = 1

-----------------------------------------------------------------------------
\* the flushes a step made
NewFlushes == Suffix(flushes', Len(flushes))

\* their text, flush after flush, each once per registration of f
RECURSIVE FlushedTo(_, _)
FlushedTo(f, fl) ==
    IF fl = <<>> THEN <<>>
    ELSE Repeat(Written(Head(fl)), Registrations(f)) \o FlushedTo(f, Tail(fl))

(* C17: a throw call appends the ERROR line and then the ERRORSTACK line,
   these two and no other, behind the lines appended so far; the overflow
   rule applies to each of the two appends: earlier flushes are kept, every
   flush the call makes drains logBufferOverflow + 1 lines and the buffer
   ends within the threshold, the drained text going to every sink. The
   console gets the error object once, and the two lines after it exactly
   when consoleOutput is set. *)
ThrowAppendsTwo ==
    [][Throw =>
          /\ ~raised'
          /\ Appended' = Appended \o <<FormattedLine("ERROR", nCalls + 1),
                                       FormattedLine("ERRORSTACK", nCalls + 2)>>
          /\ IsPrefix(flushes, flushes')
          /\ \A i \in DOMAIN NewFlushes : Len(NewFlushes[i]) = logBufferOverflow + 1
          /\ Len(logBuffer') <= logBufferOverflow
          /\ IF synchronous
             THEN /\ inflight' = inflight
                  /\ \A f \in Paths : disk'[f] = disk[f] \o FlushedTo(f, NewFlushes)
             ELSE /\ disk' = disk
                  /\ inflight' = inflight \cup NewWrites
                  /\ \A f \in Paths : \A i \in DOMAIN NewFlushes :
                        Cardinality({w \in NewWrites : w.file = f /\ w.data = Written(NewFlushes[i])})
                            = Registrations(f)
          /\ console' = console \o <<<<Line("ERROROBJECT", "m", nCalls + 1)>>>>
                            \o (IF consoleOutput
                                THEN << <<FormattedLine("ERROR", nCalls + 1)>>,
                                        <<FormattedLine("ERRORSTACK", nCalls + 2)>> >>
                                ELSE <<>>)]_vars

\* with consoleOutput off and threshold 1, the ERROR line of a throw overflowed
ThrowAppendsTwoWitness ==
    /\ lastOp = "throw" /\ ~consoleOutput /\ synchronous /\ logBufferOverflow = 1
    /\ console = <<<<Line("ERROROBJECT", "m", 2)>>>>
    /\ flushes = <<<<FormattedLine("INFO", 1), FormattedLine("ERROR", 2)>>>>
    /\ logBuffer = <<FormattedLine("ERRORSTACK", 3)>>
    /\ Len(files) = 1 /\ Count(disk[files[1]], FormattedLine("ERROR", 2)) = 1

\* the EXIT line the 'exit' listener writes for the status 1
FaultLine == Line("EXIT", CodeText("Process exit", 1), 1)

(* C18: when the host throws an error that nothing catches, in either mode,
   the lines of the buffer are written synchronously to every sink (nothing
   is left pending for them), followed by one EXIT line, the buffer is
   empty, and the process ends with a status other than 0. *)
FaultFlushesAndExits ==
    [][UncaughtException =>
          /\ pc' = "TERMINATED"
          /\ exitCode' # 0
          /\ logBuffer' = <<>>
          /\ inflight' = inflight
          /\ \A f \in Paths :
                disk'[f] = disk[f]
                            \o Repeat(IF logBuffer = <<>> THEN <<>> ELSE Written(logBuffer),
                                      Registrations(f))
                            \o Repeat(<<FaultLine, NL>>, Registrations(f))
          /\ IsExitLine(FaultLine)
          /\ console' = IF consoleOutput THEN Append(console, <<FaultLine>>) ELSE console]_vars

\* an asynchronous logger with a buffered line died of an uncaught error
FaultFlushesAndExitsWitness ==
    /\ lastOp = "uncaughtException" /\ pc = "TERMINATED" /\ exitCode = 1
    /\ ~synchronous /\ Len(files) = 1
    /\ Len(flushes) = 1 /\ flushes[1] # <<>>
    /\ LogLines(files[1]) = flushes[1]
    /\ Suffix(disk[files[1]], Len(disk[files[1]]) - 2) = <<FaultLine, NL>>

\* the text of an immediate operation of this model
ImmediateText == Line("TEXT", "p", nOps + 1)

(* C19: print, printr, printrf and exitMsg, in both modes, leave the buffer
   and the flushes as they are, start no asynchronous write and have their
   line appended to every sink, once per registration, when they return:
   print its tagged line, printr and printrf the raw text, exitMsg an EXIT
   line. print and printr echo to the console, printrf does not, exitMsg
   does with consoleOutput. *)
ImmediateBypassesBuffer ==
    [][(PrintCall \/ PrintrCall \/ PrintrfCall \/ ExitMsg) =>
          /\ logBuffer' = logBuffer
          /\ flushes' = flushes
          /\ inflight' = inflight /\ issued' = issued
          /\ ~raised'
          /\ PrintCall =>
                /\ HandedOver(<<Line("CONSOLE OUTPUT", "", 0), ImmediateText, NL>>, TRUE)
                /\ console' = Append(console, <<ImmediateText>>)
          /\ PrintrCall =>
                /\ HandedOver(<<ImmediateText, NL>>, TRUE)
                /\ console' = Append(console, <<ImmediateText>>)
          /\ PrintrfCall =>
                /\ HandedOver(<<ImmediateText, NL>>, TRUE)
                /\ console' = console
          /\ ExitMsg =>
                /\ HandedOver(<<Line("EXIT", "p", nOps + 1), NL>>, TRUE)
                /\ console' = IF consoleOutput
                              THEN Append(console, <<Line("EXIT", "p", nOps + 1)>>)
                              ELSE console]_vars

\* printr on an asynchronous logger with a buffered line and a sink
ImmediateBypassesBufferWitness ==
    /\ lastOp = "printr" /\ ~synchronous
    /\ logBuffer # <<>> /\ Len(files) = 1
    /\ LogLines(files[1]) = <<>>
    /\ Suffix(disk[files[1]], Len(disk[files[1]]) - 2) = <<Line("TEXT", "p", nOps), NL>>

\* the line of the n-th log call is in the buffer
InBuffer(n) == \E i \in DOMAIN logBuffer : logBuffer[i].arg = n

\* the line of the n-th log call is in every registered sink
InEverySink(n) ==
    \A i \in DOMAIN files : \E k \in DOMAIN disk[files[i]] :
        /\ IsLogLine(disk[files[i]][k])
        /\ disk[files[i]][k].arg = n

(* C20: with the interval timer firing again and again and the host never
   calling writeNow, every line that is in the buffer is later out of it,
   whatever the threshold; in synchronous mode it is, at that time, in
   every registered sink. *)
TimerDrains ==
    \A n \in 1..MaxOps :
        InBuffer(n) ~> (~InBuffer(n) /\ (synchronous => InEverySink(n)))

\* a timer tick drained a buffer far below the threshold into the sink
TimerDrainsWitness ==
    /\ lastOp = "timer" /\ synchronous /\ logBufferOverflow = DefaultOverflow
    /\ logBuffer = <<>> /\ Len(flushes) = 1 /\ flushes[1] # <<>>
    /\ Len(files) = 1 /\ LogLines(files[1]) = flushes[1]

-----------------------------------------------------------------------------
\* the text info is called with in place of the wrapper, written out
PrefixedLiteral(context, message) ==
    CASE context = "db" /\ message = "m" -> "[db] m"
      [] context = "db" /\ message = "up" -> "[db] up"
      [] context = "http" /\ message = "m" -> "[http] m"
      [] context = "http" /\ message = "up" -> "[http] up"

\* the step left buffer, flushes and sinks as the logger value e has them
SameBufferAndSinks(e) ==
    /\ logBuffer' = e.logBuffer /\ flushes' = e.flushes
    /\ disk' = e.disk /\ inflight' = e.inflight
    /\ raised' = e.thrown

(* C21: a call inContext(c).info(m) leaves buffer, flushes, sinks, pending
   writes and console exactly as the call info("[c] m") would; a call
   inFileContext(c).info(m) leaves buffer, flushes, sinks and pending writes
   as info("[c] m") would, the overflow flush included, and leaves the
   console as it was, with consoleOutput set or not. *)
ContextDelegates ==
    [][/\ InContextInfo =>
             \E context \in Contexts, message \in Messages :
                LET e == infoText(Cur, PrefixedLiteral(context, message), nCalls + 1)
                IN  SameBufferAndSinks(e) /\ console' = e.console
       /\ InFileContextInfo =>
             \E context \in Contexts, message \in Messages :
                LET e == infoText(Cur, PrefixedLiteral(context, message), nCalls + 1)
                IN  SameBufferAndSinks(e) /\ console' = console]_vars

\* with consoleOutput set, a file-only wrapper call overflowed into the sink
ContextDelegatesWitness ==
    /\ lastOp = "inFileContext.info" /\ consoleOutput /\ synchronous
    /\ logBufferOverflow = 1 /\ logBuffer = <<>> /\ Len(files) = 1
    /\ LogLines(files[1]) = <<Line("INFO", "[db] up", 1), Line("INFO", "[http] m", 2)>>
    /\ console = << <<Line("INFO", "[db] up", 1)>> >>

-----------------------------------------------------------------------------
(* C22: in asynchronous mode every path that is registered once holds the
   buffered lines in the order of their calls, whatever the order in which
   the pending writes complete. *)
AsyncSinkOrder ==
    ~synchronous =>
        \A f \in Paths : Registrations(f) <= 1 => InCallOrder(LogLines(f))

(* C23: in asynchronous mode, when the listener of beforeExit, exit, SIGTERM
   or SIGINT returns, the buffer is empty, every line it held is in every
   path once per registration, and the listener started no asynchronous
   write. *)
LifecycleFlushBlocks ==
    [][LifecycleEvent /\ ~synchronous =>
          /\ logBuffer' = <<>>
          /\ inflight' = inflight /\ issued' = issued
          /\ \A f \in Paths : \A k \in DOMAIN logBuffer :
                Count(Added(f), logBuffer[k]) = Registrations(f)]_vars

\* beforeExit found a line in the buffer of an asynchronous logger
LifecycleFlushBlocksWitness ==
    /\ lastOp = "beforeExit" /\ ~synchronous /\ pc = "RUNNING"
    /\ inflight = {} /\ issued = 0
    /\ Len(flushes) = 1 /\ flushes[1] # <<>>
    /\ Len(files) = 1 /\ LogLines(files[1]) = flushes[1]

(* C24: a logger constructed with capacity 0 has the threshold 0, and each
   of its info, debug, warn, error and finfo calls makes one flush of its
   own line alone, handed to every sink, and returns with the buffer
   empty. *)
ZeroCapacityFlushesEach ==
    [][BufferedCall /\ overflowArg = 0 =>
          /\ logBufferOverflow = 0
          /\ logBuffer = <<>> /\ logBuffer' = <<>>
          /\ Len(flushes') = Len(flushes) + 1
          /\ IsPrefix(flushes, flushes')
          /\ Len(Last(flushes')) = 1
          /\ Last(flushes')[1].arg = nCalls + 1
          /\ HandedOver(Written(Last(flushes')), synchronous)]_vars

\* two calls of a capacity-0 logger: two flushes of one line each, both in the sink
ZeroCapacityFlushesEachWitness ==
    /\ overflowArg = 0 /\ lastOp = "warn" /\ synchronous
    /\ Len(flushes) = 2 /\ Len(flushes[1]) = 1 /\ Len(flushes[2]) = 1
    /\ logBuffer = <<>> /\ Len(files) = 1
    /\ LogLines(files[1]) = Flatten(flushes)

-----------------------------------------------------------------------------
(* C25: a pipe call puts its path at the end of the sink list, whether the
   path is already in the list or not, and leaves the earlier entries in
   place; every other step (log call, immediate write, writeNow, timer
   tick, completion of a write, lifecycle listener, uncaught error) leaves
   the sink list as it was. *)
SinksOnlyGrow ==
    [][/\ Pipe => \E file \in Paths : files' = Append(files, file)
       /\ ~Pipe => files' = files]_vars

\* a path was piped twice and is twice in the list when the process ends
SinksOnlyGrowWitness ==
    /\ files = <<"x.log", "x.log">>
    /\ lastOp = "SIGINT" /\ pc = "TERMINATED"

-----------------------------------------------------------------------------
\* the texts of EXIT lines that end with the code given to the listener
CodeRecorded == {"Process beforeExit event with code: ", "Process exit event with code: "}

(* C26: every EXIT line the listener of beforeExit or exit writes to a sink
   ends with the code the listener was given, whatever that code is. *)
ExitLineRecordsCode ==
    [][(BeforeExit \/ Exit) =>
          \A f \in Range(files) : \A q \in DOMAIN Added(f) :
             IsExitLine(Added(f)[q]) =>
                /\ Added(f)[q].msg \in CodeRecorded
                /\ Added(f)[q].arg \in ExitCodes]_vars

-----------------------------------------------------------------------------
\* one pipe and nCalls calls of the info level, nothing else, in synchronous
\* mode, the pipe before any flush
ScenarioInfosAfterPipe ==
    /\ synchronous
    /\ Len(files) = 1 /\ pipedAt = <<0>>
    /\ nCalls >= 1 /\ nOps = nCalls + 1
    /\ \A l \in Range(Appended) : l.lvl = "INFO"

(* C27: after pipe and N info calls with threshold C in synchronous mode,
   with no timer tick and no writeNow, there were N div (C+1) flushes, the
   i-th of the lines (i-1)(C+1)+1 .. i(C+1); the sink holds these lines in
   call order and the buffer holds the last N mod (C+1) lines. *)
RepeatedOverflow ==
    ScenarioInfosAfterPipe =>
        LET cycle == logBufferOverflow + 1
            k == nCalls \div cycle
        IN  /\ Len(flushes) = k
            /\ \A i \in DOMAIN flushes :
                  /\ Len(flushes[i]) = cycle
                  /\ \A j \in 1..cycle : flushes[i][j].arg = (i - 1) * cycle + j
            /\ LogLines(files[1]) = Flatten(flushes)
            /\ Len(LogLines(files[1])) = k * cycle
            /\ Len(logBuffer) = nCalls % cycle
            /\ \A j \in DOMAIN logBuffer : logBuffer[j].arg = k * cycle + j

\* threshold 1, three info calls: one flush of two lines, the third is buffered
RepeatedOverflowWitness ==
    /\ ScenarioInfosAfterPipe /\ logBufferOverflow = 1 /\ nCalls = 3
    /\ lastOp = "info" /\ consoleOutput /\ Len(console) = 3
    /\ Len(flushes) = 1 /\ logBuffer = <<FormattedLine("INFO", 3)>>

-----------------------------------------------------------------------------
\* the i-th flush ran before the path f was registered for the first time
FlushedBeforePiped(i, f) == \A j \in DOMAIN files : files[j] = f => pipedAt[j] >= i

(* C28: a line that was drained by a flush is no longer in the buffer, and
   a path holds, or is about to hold, no line of a flush that ran before
   the path was registered; so the lines of a flush that ran with no sink
   registered (by overflow, timer, writeNow or a lifecycle listener) are in
   no file, whatever is piped afterwards. *)
DiscardedWithoutSink ==
    \A i \in DOMAIN flushes : \A l \in Range(flushes[i]) :
        /\ l \notin Range(logBuffer)
        /\ \A f \in Paths : FlushedBeforePiped(i, f) => Deliveries(f, l) = 0

\* a line was flushed with no sink, then a sink was piped and got a later flush
DiscardedWithoutSinkWitness ==
    /\ synchronous /\ Len(files) = 1 /\ pipedAt = <<1>>
    /\ Len(flushes) = 2 /\ flushes[1] # <<>> /\ flushes[2] # <<>>
    /\ logBuffer = <<>>
    /\ LogLines(files[1]) = flushes[2]

-----------------------------------------------------------------------------
\* the banner of `file` as a path registered r times receives it: row by row
RECURSIVE BannerRowsTo(_, _, _)
BannerRowsTo(file, k, r) ==
    IF k > Len(BannerText) THEN <<>>
    ELSE Repeat(JoinWith(BannerRow(k, file), Line("SP", " ", 0)) \o <<NL>>, r)
            \o BannerRowsTo(file, k + 1, r)

(* C29: a pipe(file) call, in either mode, appends the banner of `file` to
   every path of the sink list as it is after the call, the paths registered
   before included, once per registration and synchronously; the buffer is
   not touched. So after pipe(x), pipe(y) the file x holds x's banner and
   then y's, and y holds y's alone. *)
PipeBannerToAll ==
    [][Pipe =>
          \E file \in Paths :
             /\ files' = Append(files, file)
             /\ \A f \in Paths :
                   disk'[f] = disk[f] \o BannerRowsTo(file, 1,
                                  Registrations(f) + IF f = file THEN 1 ELSE 0)
             /\ inflight' = inflight
             /\ logBuffer' = logBuffer /\ flushes' = flushes]_vars

\* pipe(x) then pipe(y) on an asynchronous logger, nothing else written
PipeBannerToAllWitness ==
    /\ lastOp = "pipe" /\ ~synchronous /\ nOps = 2
    /\ files = <<"x.log", "y.log">>
    /\ disk["x.log"] = BannerBlock("x.log") \o BannerBlock("y.log")
    /\ disk["y.log"] = BannerBlock("y.log")

-----------------------------------------------------------------------------
Unbuffered == PrintCall \/ PrintrCall \/ PrintrfCall \/ ExitMsg \/ Pipe

(* C30: files only grow at their end, and a print, printr, printrf, exitMsg
   or pipe call made while lines are in the buffer leaves them there and
   puts its own text in every sink, where none of the buffered lines is yet
   (nor pending); the buffered lines of the earlier calls are therefore
   written behind the text of the later unbuffered call. *)
UnbufferedOvertakes ==
    [][/\ \A f \in Paths : IsPrefix(disk[f], disk'[f])
       /\ Unbuffered /\ logBuffer # <<>> =>
             /\ logBuffer' = logBuffer /\ flushes' = flushes
             /\ inflight' = inflight
             /\ \A f \in Range(files') :
                   /\ Added(f) # <<>>
                   /\ \A l \in Range(logBuffer) :
                         /\ l \notin Range(disk'[f])
                         /\ \A w \in inflight' : l \notin Range(w.data)]_vars

\* info, print, info with threshold 1: the sink has the print line, made by the
\* third operation, before the line of the first info call
UnbufferedOvertakesWitness ==
    /\ synchronous /\ logBufferOverflow = 1 /\ Len(files) = 1
    /\ lastOp = "info" /\ nOps = 4 /\ nCalls = 2
    /\ \E p, q \in DOMAIN disk[files[1]] :
          /\ p < q
          /\ disk[files[1]][p] = Line("TEXT", "p", 3)
          /\ disk[files[1]][q] = FormattedLine("INFO", 1)

-----------------------------------------------------------------------------
\* the step wrote the line l to every sink of the list fs
WrittenToAll(l, fs) == \A i \in DOMAIN fs : l \in Range(Added(fs[i]))

(* C31: with two loggers in one process, an info or pipe call on one leaves
   the buffer, the flushes and the sink list of the other as they were; on
   SIGTERM or SIGINT the process ends, in either mode, with both buffers
   empty, every line that was pending in a logger written to every sink of
   that logger and to no path that is not one of its sinks, and no write
   left to complete for them, although only the signal listener of the
   first logger ran. *)
TwoLoggersIsolated ==
    [][/\ (Info \/ Pipe) /\ second.constructed => second' = second
       /\ (SecondInfo \/ SecondPipe) =>
             logBuffer' = logBuffer /\ files' = files /\ flushes' = flushes
       /\ (SIGTERMBoth \/ SIGINTBoth) =>
             /\ pc' = "TERMINATED"
             /\ files' = files /\ second'.files = second.files
             /\ logBuffer' = <<>> /\ second'.logBuffer = <<>>
             /\ inflight' = inflight
             /\ \A l \in Range(logBuffer) :
                   /\ WrittenToAll(l, files)
                   /\ \A f \in Paths \ Range(files) : l \notin Range(Added(f))
             /\ \A l \in Range(second.logBuffer) :
                   /\ WrittenToAll(l, second.files)
                   /\ \A f \in Paths \ Range(second.files) : l \notin Range(Added(f))]_vars

\* SIGINT with a line pending in each of two asynchronous loggers, each with
\* a sink of its own: each file has the line of its logger only
TwoLoggersIsolatedWitness ==
    /\ lastOp = "SIGINT both" /\ pc = "TERMINATED" /\ ~synchronous
    /\ files = <<"x.log">> /\ second.files = <<"y.log">>
    /\ flushes = <<<<FormattedLine("INFO", 1)>>>>
    /\ second.flushes = <<<<FormattedLine("INFO", 2)>>>>
    /\ LogLines("x.log") = <<FormattedLine("INFO", 1)>>
    /\ LogLines("y.log") = <<FormattedLine("INFO", 2)>>

====
